---- MODULE Spec2Model ----
(***************************************************************************)
(* Model of perbu/bump: a command-line tool that bumps the semantic        *)
(* version stored in the .version files of a git working tree, commits     *)
(* the change and creates a matching annotated tag.                        *)
(*                                                                         *)
(* Strings are sequences of one-character strings, so that splitting,      *)
(* scanning and formatting are computed the way the code computes them.    *)
(* Decimal integers are kept as digit sequences: the Go int is 64 bits     *)
(* wide and its limits are compared digit by digit.                        *)
(***************************************************************************)
EXTENDS Integers, Sequences, FiniteSets, TLC

(***************************************************************************)
(* Characters and strings                                                  *)
(***************************************************************************)
Digits == <<"0", "1", "2", "3", "4", "5", "6", "7", "8", "9">>

IsDigit(c) == \E i \in 1..10 : Digits[i] = c

DigitVal(c) == (CHOOSE i \in 1..10 : Digits[i] = c) - 1

\* byte order of the characters the model uses (ASCII)
Ord(c) ==
    CASE c = "+" -> 43
      [] c = "-" -> 45
      [] c = "." -> 46
      [] IsDigit(c) -> 48 + DigitVal(c)
      [] c = "a" -> 97
      [] c = "b" -> 98
      [] c = "n" -> 110
      [] c = "v" -> 118
      [] OTHER -> 120

IsIdentChar(c) == IsDigit(c) \/ c \in {"a", "b", "n", "v", "x", "-"}

Drop(s, n) == SubSeq(s, n + 1, Len(s))

Take(s, n) == SubSeq(s, 1, n)

\* Go's < on strings: byte-wise lexicographic order
RECURSIVE StrLess(_, _)
StrLess(x, y) ==
    IF y = <<>> THEN FALSE
    ELSE IF x = <<>> THEN TRUE
    ELSE IF x[1] # y[1] THEN Ord(x[1]) < Ord(y[1])
    ELSE StrLess(Tail(x), Tail(y))

\* number of leading decimal digits of s
RECURSIVE DigitRun(_)
DigitRun(s) ==
    IF s = <<>> \/ ~IsDigit(s[1]) THEN 0 ELSE 1 + DigitRun(Tail(s))

\* strings.Split(s, "."): the pieces between the dots
RECURSIVE Split(_)
Split(s) ==
    IF \A i \in 1..Len(s) : s[i] # "." THEN <<s>>
    ELSE LET i == CHOOSE k \in 1..Len(s) :
                      s[k] = "." /\ \A j \in 1..(k - 1) : s[j] # "."
         IN <<Take(s, i - 1)>> \o Split(Drop(s, i))

(***************************************************************************)
(* golang.org/x/mod/semver, as the program uses it (IsValid, Sort)         *)
(***************************************************************************)
NoToken == [ok |-> FALSE, t |-> <<>>, rest |-> <<>>]

DigitToken(v, n) ==
    IF n = 0 \/ (v[1] = "0" /\ n # 1)
    THEN NoToken
    ELSE [ok |-> TRUE, t |-> Take(v, n), rest |-> Drop(v, n)]

\* semver.parseInt: a run of digits without a leading zero
SemverParseInt(v) == DigitToken(v, DigitRun(v))

\* semver.isBadNum: all digits, longer than one, leading zero
IsBadNum(id) == DigitRun(id) = Len(id) /\ Len(id) > 1 /\ id[1] = "0"

IdentListOk(ids, numeric) ==
    \A i \in 1..Len(ids) : ids[i] # <<>> /\ (numeric => ~IsBadNum(ids[i]))

\* the dot-separated identifiers of a pre-release or build part are well formed
IdentsOk(body, numeric) ==
    /\ \A i \in 1..Len(body) : IsIdentChar(body[i]) \/ body[i] = "."
    /\ IdentListOk(Split(body), numeric)

\* where a pre-release ends: at the first "+", or at the end of the string
PrereleaseEnd(v) ==
    IF \E i \in 1..Len(v) : v[i] = "+"
    THEN (CHOOSE i \in 1..Len(v) : v[i] = "+" /\ \A j \in 1..(i - 1) : v[j] # "+") - 1
    ELSE Len(v)

PrereleaseToken(v, n) ==
    IF IdentsOk(SubSeq(v, 2, n), TRUE)
    THEN [ok |-> TRUE, t |-> Take(v, n), rest |-> Drop(v, n)]
    ELSE NoToken

\* semver.parsePrerelease: "-" and identifiers, up to a "+" or the end
ParsePrerelease(v) == PrereleaseToken(v, PrereleaseEnd(v))

\* semver.parseBuild: "+" and identifiers, up to the end
ParseBuild(v) ==
    IF IdentsOk(Tail(v), FALSE)
    THEN [ok |-> TRUE, t |-> v, rest |-> <<>>]
    ELSE NoToken

NotParsed ==
    [ok |-> FALSE, major |-> <<>>, minor |-> <<>>, patch |-> <<>>,
     prerelease |-> <<>>]

Parsed(major, minor, patch, prerelease) ==
    [ok |-> TRUE, major |-> major, minor |-> minor, patch |-> patch,
     prerelease |-> prerelease]

StartsWith(s, c) == s # <<>> /\ s[1] = c

Nothing(rest) == [ok |-> TRUE, t |-> <<>>, rest |-> rest]

\* semver.parse, after the build part: nothing may follow
ParseEnd(ma, mi, pa, pre, bld) ==
    IF ~bld.ok \/ bld.rest # <<>> THEN NotParsed
    ELSE Parsed(ma.t, mi.t, pa.t, pre.t)

\* semver.parse, after the pre-release part: an optional "+BUILD"
ParseAfterPrerelease(ma, mi, pa, pre) ==
    IF ~pre.ok THEN NotParsed
    ELSE ParseEnd(ma, mi, pa, pre,
                  IF StartsWith(pre.rest, "+") THEN ParseBuild(pre.rest)
                  ELSE Nothing(pre.rest))

\* semver.parse, after the patch number: an optional "-PRERELEASE"
ParseAfterPatch(ma, mi, pa) ==
    IF ~pa.ok THEN NotParsed
    ELSE ParseAfterPrerelease(ma, mi, pa,
                              IF StartsWith(pa.rest, "-") THEN ParsePrerelease(pa.rest)
                              ELSE Nothing(pa.rest))

\* semver.parse, after the minor number: the end (vMAJOR.MINOR) or ".PATCH"
ParseAfterMinor(ma, mi) ==
    IF ~mi.ok THEN NotParsed
    ELSE IF mi.rest = <<>> THEN Parsed(ma.t, mi.t, <<"0">>, <<>>)
    ELSE IF mi.rest[1] # "." THEN NotParsed
    ELSE ParseAfterPatch(ma, mi, SemverParseInt(Tail(mi.rest)))

\* semver.parse, after the major number: the end (vMAJOR) or ".MINOR"
ParseAfterMajor(ma) ==
    IF ~ma.ok THEN NotParsed
    ELSE IF ma.rest = <<>> THEN Parsed(ma.t, <<"0">>, <<"0">>, <<>>)
    ELSE IF ma.rest[1] # "." THEN NotParsed
    ELSE ParseAfterMinor(ma, SemverParseInt(Tail(ma.rest)))

\* semver.parse: vMAJOR[.MINOR[.PATCH[-PRERELEASE][+BUILD]]]
SemverParse(v) ==
    IF ~StartsWith(v, "v") THEN NotParsed
    ELSE ParseAfterMajor(SemverParseInt(Tail(v)))

\* semver.IsValid
IsValid(v) == SemverParse(v).ok

\* semver.compareInt: decimal strings without leading zeros, by length then bytes
CompareInt(x, y) ==
    IF x = y THEN 0
    ELSE IF Len(x) < Len(y) THEN -1
    ELSE IF Len(x) > Len(y) THEN 1
    ELSE IF StrLess(x, y) THEN -1 ELSE 1

IsNum(id) == DigitRun(id) = Len(id)

\* semver.comparePrerelease on the identifier lists of x and y
RECURSIVE CompareIdents(_, _)
CompareIdents(xs, ys) ==
    IF xs = <<>> /\ ys = <<>> THEN 0
    ELSE IF xs = <<>> THEN -1
    ELSE IF ys = <<>> THEN 1
    ELSE IF Head(xs) = Head(ys) THEN CompareIdents(Tail(xs), Tail(ys))
    ELSE IF IsNum(Head(xs)) # IsNum(Head(ys))
    THEN (IF IsNum(Head(xs)) THEN -1 ELSE 1)
    ELSE IF IsNum(Head(xs)) /\ Len(Head(xs)) < Len(Head(ys)) THEN -1
    ELSE IF IsNum(Head(xs)) /\ Len(Head(xs)) > Len(Head(ys)) THEN 1
    ELSE IF StrLess(Head(xs), Head(ys)) THEN -1 ELSE 1

ComparePrerelease(x, y) ==
    IF x = y THEN 0
    ELSE IF x = <<>> THEN 1
    ELSE IF y = <<>> THEN -1
    ELSE CompareIdents(Split(Tail(x)), Split(Tail(y)))

\* the first result that is not 0, or 0
FirstDifference(cs) ==
    IF \A i \in 1..Len(cs) : cs[i] = 0 THEN 0
    ELSE cs[CHOOSE i \in 1..Len(cs) : cs[i] # 0 /\ \A j \in 1..(i - 1) : cs[j] = 0]

CompareParsed(pv, pw) ==
    IF ~pv.ok /\ ~pw.ok THEN 0
    ELSE IF ~pv.ok THEN -1
    ELSE IF ~pw.ok THEN 1
    ELSE FirstDifference(<<CompareInt(pv.major, pw.major),
                           CompareInt(pv.minor, pw.minor),
                           CompareInt(pv.patch, pw.patch),
                           ComparePrerelease(pv.prerelease, pw.prerelease)>>)

\* semver.Compare
Compare(v, w) == CompareParsed(SemverParse(v), SemverParse(w))

LessBy(cmp, v, w) == IF cmp # 0 THEN cmp < 0 ELSE StrLess(v, w)

\* the order semver.Sort sorts by: Compare, ties broken by the strings
SortLess(v, w) == LessBy(Compare(v, w), v, w)

(***************************************************************************)
(* The Go int (64 bits) as sign and decimal magnitude                      *)
(***************************************************************************)
MaxInt64 ==
    <<"9", "2", "2", "3", "3", "7", "2", "0", "3", "6",
      "8", "5", "4", "7", "7", "5", "8", "0", "7">>

\* magnitude of the smallest int, -2^63
MinInt64Mag ==
    <<"9", "2", "2", "3", "3", "7", "2", "0", "3", "6",
      "8", "5", "4", "7", "7", "5", "8", "0", "8">>

RECURSIVE StripZeros(_)
StripZeros(ds) ==
    IF Len(ds) > 1 /\ ds[1] = "0" THEN StripZeros(Tail(ds)) ELSE ds

RECURSIVE IncDigits(_)
IncDigits(ds) ==
    IF ds = <<>> THEN <<"1">>
    ELSE IF ds[Len(ds)] = "9" THEN IncDigits(Take(ds, Len(ds) - 1)) \o <<"0">>
    ELSE Take(ds, Len(ds) - 1) \o <<Digits[DigitVal(ds[Len(ds)]) + 2]>>

RECURSIVE DecDigits(_)
DecDigits(ds) ==
    IF ds[Len(ds)] = "0" THEN DecDigits(Take(ds, Len(ds) - 1)) \o <<"9">>
    ELSE Take(ds, Len(ds) - 1) \o <<Digits[DigitVal(ds[Len(ds)])]>>

IntZero == [neg |-> FALSE, mag |-> <<"0">>]

\* variant: the increment is lost
IntInc_Lost(i) == i

\* i++ on an int: wraps from the largest int to the smallest
IntInc(i) ==
    IF ~i.neg
    THEN IF i.mag = MaxInt64 THEN [neg |-> TRUE, mag |-> MinInt64Mag]
         ELSE [neg |-> FALSE, mag |-> IncDigits(i.mag)]
    ELSE IF i.mag = <<"1">> THEN IntZero
         ELSE [neg |-> TRUE, mag |-> StripZeros(DecDigits(i.mag))]

\* the %d verb of fmt.Sprintf
FormatInt(i) == IF i.neg THEN <<"-">> \o i.mag ELSE i.mag

NoInt == [ok |-> FALSE, val |-> IntZero, rest |-> <<>>]

\* strconv.ParseInt(tok, 10, 64) on the sign and the digits scanned
ParseInt(neg, mag, rest) ==
    IF CompareInt(mag, IF neg /\ mag # <<"0">> THEN MinInt64Mag ELSE MaxInt64) > 0
    THEN NoInt
    ELSE [ok |-> TRUE, val |-> [neg |-> neg /\ mag # <<"0">>, mag |-> mag],
          rest |-> rest]

ScanDigits(neg, body, n) ==
    IF n = 0 THEN NoInt
    ELSE ParseInt(neg, StripZeros(Take(body, n)), Drop(body, n))

ScanSigned(neg, body) == ScanDigits(neg, body, DigitRun(body))

\* the %d verb of fmt.Sscanf: an optional sign and a run of digits, which
\* must fit a 64-bit int; the rest of the input is left unread
ScanInt(s) ==
    IF StartsWith(s, "+") \/ StartsWith(s, "-")
    THEN ScanSigned(s[1] = "-", Tail(s))
    ELSE ScanSigned(FALSE, s)

NotScanned ==
    [ok |-> FALSE, major |-> IntZero, minor |-> IntZero, patch |-> IntZero]

\* variant: input left after the third integer makes the scan fail
ScanEnd_WholeInput(ma, mi, pa) ==
    IF ~pa.ok \/ pa.rest # <<>> THEN NotScanned
    ELSE [ok |-> TRUE, major |-> ma.val, minor |-> mi.val, patch |-> pa.val]

ScanEnd(ma, mi, pa) ==
    IF ~pa.ok THEN NotScanned
    ELSE [ok |-> TRUE, major |-> ma.val, minor |-> mi.val, patch |-> pa.val]

ScanAfterMinor(ma, mi) ==
    IF ~mi.ok \/ ~StartsWith(mi.rest, ".") THEN NotScanned
    ELSE ScanEnd(ma, mi, ScanInt(Tail(mi.rest)))

ScanAfterMajor(ma) ==
    IF ~ma.ok \/ ~StartsWith(ma.rest, ".") THEN NotScanned
    ELSE ScanAfterMinor(ma, ScanInt(Tail(ma.rest)))

\* fmt.Sscanf(s, "v%d.%d.%d", &major, &minor, &patch)
Sscanf(s) ==
    IF ~StartsWith(s, "v") THEN NotScanned
    ELSE ScanAfterMajor(ScanInt(Tail(s)))

\* fmt.Sprintf("v%d.%d.%d", major, minor, patch)
Sprintf(major, minor, patch) ==
    <<"v">> \o FormatInt(major) \o <<".">> \o FormatInt(minor)
            \o <<".">> \o FormatInt(patch)

(***************************************************************************)
(* incrementVersion                                                        *)
(***************************************************************************)
Actions == {"noAction", "incrementPatch", "incrementMinor", "incrementMajor"}

BumpKinds == {"incrementPatch", "incrementMinor", "incrementMajor"}

\* a value of the int type action that is none of its four constants
OtherAction == "action(4)"

NoErr == "nil"

\* variant: a minor bump that leaves the patch component as it is
Bump_KeepPatch(sc, action) ==
    IF ~sc.ok
    THEN [version |-> <<>>, err |-> "failed to parse current version"]
    ELSE IF action = "incrementPatch"
    THEN [version |-> Sprintf(sc.major, sc.minor, IntInc(sc.patch)),
          err |-> NoErr]
    ELSE IF action = "incrementMinor"
    THEN [version |-> Sprintf(sc.major, IntInc(sc.minor), sc.patch),
          err |-> NoErr]
    ELSE IF action = "incrementMajor"
    THEN [version |-> Sprintf(IntInc(sc.major), IntZero, IntZero),
          err |-> NoErr]
    ELSE [version |-> <<>>, err |-> "invalid action"]

\* variant: the switch falls back to a patch bump for any other action
Bump_DefaultPatch(sc, action) ==
    IF ~sc.ok
    THEN [version |-> <<>>, err |-> "failed to parse current version"]
    ELSE IF action = "incrementMinor"
    THEN [version |-> Sprintf(sc.major, IntInc(sc.minor), IntZero),
          err |-> NoErr]
    ELSE IF action = "incrementMajor"
    THEN [version |-> Sprintf(IntInc(sc.major), IntZero, IntZero),
          err |-> NoErr]
    ELSE [version |-> Sprintf(sc.major, sc.minor, IntInc(sc.patch)),
          err |-> NoErr]

\* incrementVersion from the result of Sscanf on: the switch on cfg.action
Bump(sc, action) ==
    IF ~sc.ok
    THEN [version |-> <<>>, err |-> "failed to parse current version"]
    ELSE IF action = "incrementPatch"
    THEN [version |-> Sprintf(sc.major, sc.minor, IntInc(sc.patch)),
          err |-> NoErr]
    ELSE IF action = "incrementMinor"
    THEN [version |-> Sprintf(sc.major, IntInc(sc.minor), IntZero),
          err |-> NoErr]
    ELSE IF action = "incrementMajor"
    THEN [version |-> Sprintf(IntInc(sc.major), IntZero, IntZero),
          err |-> NoErr]
    ELSE [version |-> <<>>, err |-> "invalid action"]

\* variant: only fewer than three components are refused
incrementVersion_AtLeast3(currentVersion, c) ==
    IF Len(Split(currentVersion)) < 3
    THEN [version |-> <<>>, err |-> "invalid version format"]
    ELSE Bump(Sscanf(currentVersion), c.action)

incrementVersion(currentVersion, c) ==
    IF Len(Split(currentVersion)) # 3
    THEN [version |-> <<>>, err |-> "invalid version format"]
    ELSE Bump(Sscanf(currentVersion), c.action)

(***************************************************************************)
(* The ignore rules of .bumpignore: loadIgnoreRules and shouldIgnore       *)
(***************************************************************************)
IsSpace(c) == c \in {" ", "\t", "\r", "\n"}

\* strings.TrimSpace
RECURSIVE TrimLeft(_)
TrimLeft(s) ==
    IF s = <<>> THEN s
    ELSE IF IsSpace(s[1]) THEN TrimLeft(Tail(s)) ELSE s

RECURSIVE TrimRight(_)
TrimRight(s) ==
    IF s = <<>> THEN s
    ELSE IF IsSpace(s[Len(s)]) THEN TrimRight(Take(s, Len(s) - 1)) ELSE s

TrimSpace(s) == TrimRight(TrimLeft(s))

\* the length of the first line of s, its end of line not counted
RECURSIVE LineLen(_)
LineLen(s) ==
    IF s = <<>> THEN 0
    ELSE IF s[1] = "\n" THEN 0 ELSE 1 + LineLen(Tail(s))

\* the lines of a file's content
RECURSIVE Lines(_)
LinesFrom(s, n) == <<Take(s, n)>> \o Lines(Drop(s, n + 1))

Lines(s) == IF s = <<>> THEN <<>> ELSE LinesFrom(s, LineLen(s))

\* variant: the pattern of an anchored rule keeps its leading slash
RuleOf_KeepSlash(line) ==
    IF line[1] = "/"
    THEN [pattern |-> line, anchored |-> TRUE]
    ELSE [pattern |-> line, anchored |-> FALSE]

\* the rule of a trimmed line that is neither blank nor a comment
RuleOf(line) ==
    IF line[1] = "/"
    THEN [pattern |-> Tail(line), anchored |-> TRUE]
    ELSE [pattern |-> line, anchored |-> FALSE]

\* the rules a trimmed line gives: none for a blank line or a comment
RulesOfLine(line) ==
    IF line = <<>> THEN <<>>
    ELSE IF line[1] = "#" THEN <<>> ELSE <<RuleOf(line)>>

RECURSIVE RulesOf(_)
RulesOf(lines) ==
    IF lines = <<>> THEN <<>>
    ELSE RulesOfLine(TrimSpace(lines[1])) \o RulesOf(Tail(lines))

\* loadIgnoreRules: the rules of the file in file order; a missing file gives
\* no rule and no error
loadIgnoreRules(file) ==
    IF ~file.exists
    THEN [rules |-> <<>>, err |-> NoErr]
    ELSE [rules |-> RulesOf(Lines(file.data)), err |-> NoErr]

\* variant: an anchored rule also matches on the directory name
Matches_AnyDepth(rule, path, dirName) ==
    path = rule.pattern \/ dirName = rule.pattern

\* an anchored rule matches the path itself, an unanchored rule matches the
\* directory name
Matches(rule, path, dirName) ==
    IF rule.anchored THEN path = rule.pattern ELSE dirName = rule.pattern

\* shouldIgnore: some rule matches
RECURSIVE shouldIgnore(_, _, _)
shouldIgnore(path, dirName, rules) ==
    IF rules = <<>> THEN FALSE
    ELSE IF Matches(rules[1], path, dirName) THEN TRUE
    ELSE shouldIgnore(path, dirName, Tail(rules))

(***************************************************************************)
(* Inputs of the model                                                     *)
(***************************************************************************)
\* largest number of tags the repository holds before the run
MaxTags == 2

EmptyStr == <<>>

V100 == <<"v", "1", ".", "0", ".", "0">>

V101 == <<"v", "1", ".", "0", ".", "1">>

\* a pre-release of v1.0.1
V101a == <<"v", "1", ".", "0", ".", "1", "-", "a">>

\* the short form semver.IsValid accepts
V12 == <<"v", "1", ".", "2">>

\* not a semantic version
NotAVersion == <<"n", "b">>

TagNames == {V100, V101, V101a, V12, NotAVersion}

VersionArgs == {EmptyStr, V101, NotAVersion}

\* the names of the two directories, as strings of characters
Sub == <<"s", "u", "b">>

Docs == <<"d", "o", "c", "s">>

\* a file of the working tree, the index or a commit's tree
Absent == [exists |-> FALSE, data |-> EmptyStr]

File(c) == [exists |-> TRUE, data |-> c]

\* what filepath.WalkDir(".") visits, in its lexical order
Entries ==
    << [path |-> ".bumpignore", name |-> ".bumpignore", isDir |-> FALSE],
       [path |-> ".version", name |-> ".version", isDir |-> FALSE],
       [path |-> "README.md", name |-> "README.md", isDir |-> FALSE],
       [path |-> "docs", name |-> "docs", isDir |-> TRUE],
       [path |-> "docs/.version", name |-> ".version", isDir |-> TRUE],
       [path |-> "sub", name |-> "sub", isDir |-> TRUE],
       [path |-> "sub/.version", name |-> ".version", isDir |-> FALSE] >>

FilePaths == {Entries[i].path : i \in {j \in 1..Len(Entries) : ~Entries[j].isDir}}

VersionFilePaths ==
    {Entries[i].path : i \in {j \in 1..Len(Entries) :
                                 ~Entries[j].isDir /\ Entries[j].name = ".version"}}

(***************************************************************************)
(* State                                                                   *)
(***************************************************************************)
VARIABLES
    files,        \* working tree: path -> file
    index,        \* staging area: path -> file
    commits,      \* history, oldest first; HEAD is the last commit
    tags,         \* tag references
    emptyCommitErr, \* the git library rejects a commit that changes nothing
    args,         \* the command line
    cfg,          \* config returned by getConfig
    pc,           \* where run is
    pos,          \* entry the walk of updateVersionFiles is at
    currentVersion,
    newVersion,
    err,          \* error returned by run
    output,       \* lines written to output
    hash,         \* tag reference reported by tagVersion
    pre,          \* the repository when run was invoked
    ret           \* what the ignore-rule functions returned, called on their own

vars == <<files, index, commits, tags, emptyCommitErr, args, cfg, pc, pos,
          currentVersion, newVersion, err, output, hash, pre, ret>>

repoVars == <<files, index, commits, tags>>

NilErr == [step |-> "nil", msg |-> "nil", path |-> "", content |-> EmptyStr]

Error(step, msg) == [step |-> step, msg |-> msg, path |-> "", content |-> EmptyStr]

NoHash == [kind |-> "none", id |-> 0, name |-> EmptyStr]

NoRet == [rules |-> <<>>, err |-> NoErr, path |-> EmptyStr, dirName |-> EmptyStr,
          ignored |-> FALSE]

CommitHash(n) == [kind |-> "commit", id |-> n, name |-> EmptyStr]

TagObjectHash(n, name) == [kind |-> "tag", id |-> n, name |-> name]

HeadTree == commits[Len(commits)].tree

\* variant: the working tree is compared with the index only, not with HEAD
IsClean_NotStaged(f, i, c) == f = i

\* variant: only the index is compared with HEAD, the working tree is not
IsClean_IndexOnly(f, i, c) == i = c[Len(c)].tree

\* Status.IsClean: nothing modified, staged or untracked
IsClean(f, i, c) == f = i /\ i = c[Len(c)].tree

(***************************************************************************)
(* getConfig and lastTag                                                   *)
(***************************************************************************)
EmptyConfig ==
    [version |-> EmptyStr, action |-> "noAction", dryRun |-> FALSE,
     forced |-> FALSE]

\* variant: -version is accepted together with an increment flag
getConfig_VersionWithFlag(a) ==
    LET chosen == IF a.major THEN "incrementMajor"
                  ELSE IF a.minor THEN "incrementMinor"
                  ELSE IF a.patch THEN "incrementPatch"
                  ELSE "noAction"
    IN
    IF a.help
    THEN [cfg |-> EmptyConfig, showHelp |-> TRUE, err |-> NoErr]
    ELSE IF a.extra
    THEN [cfg |-> EmptyConfig, showHelp |-> FALSE,
          err |-> "unexpected arguments"]
    ELSE IF (a.patch /\ a.minor) \/ (a.patch /\ a.major) \/ (a.minor /\ a.major)
    THEN [cfg |-> EmptyConfig, showHelp |-> FALSE,
          err |-> "cannot set more than one increment flag at the same time"]
    ELSE [cfg |-> [version |-> a.version,
                   action |-> IF chosen = "noAction" /\ a.version = EmptyStr
                              THEN "incrementPatch" ELSE chosen,
                   dryRun |-> a.dryRun,
                   forced |-> a.force],
          showHelp |-> FALSE, err |-> NoErr]

getConfig(a) ==
    LET chosen == IF a.major THEN "incrementMajor"
                  ELSE IF a.minor THEN "incrementMinor"
                  ELSE IF a.patch THEN "incrementPatch"
                  ELSE "noAction"
    IN
    IF a.help
    THEN [cfg |-> EmptyConfig, showHelp |-> TRUE, err |-> NoErr]
    ELSE IF a.extra
    THEN [cfg |-> EmptyConfig, showHelp |-> FALSE,
          err |-> "unexpected arguments"]
    ELSE IF a.version # EmptyStr /\ (a.patch \/ a.minor \/ a.major)
    THEN [cfg |-> EmptyConfig, showHelp |-> FALSE,
          err |-> "cannot set version and increment flags at the same time"]
    ELSE IF (a.patch /\ a.minor) \/ (a.patch /\ a.major) \/ (a.minor /\ a.major)
    THEN [cfg |-> EmptyConfig, showHelp |-> FALSE,
          err |-> "cannot set more than one increment flag at the same time"]
    ELSE [cfg |-> [version |-> a.version,
                   action |-> IF chosen = "noAction" /\ a.version = EmptyStr
                              THEN "incrementPatch" ELSE chosen,
                   dryRun |-> a.dryRun,
                   forced |-> a.force],
          showHelp |-> FALSE, err |-> NoErr]

\* repo.Tags(): the tag references in the order the iterator yields them,
\* which is any order
RECURSIVE TagOrders(_)
TagOrders(ts) ==
    IF ts = {} THEN {<<>>}
    ELSE UNION {{<<t>> \o o : o \in TagOrders(ts \ {t})} : t \in ts}

\* variant: every tag name is kept
RECURSIVE ValidTags_All(_)
ValidTags_All(refs) ==
    IF refs = <<>> THEN <<>>
    ELSE <<refs[1].name>> \o ValidTags_All(Tail(refs))

\* the ForEach callback: the short names that are valid semantic versions are
\* appended in iteration order
RECURSIVE ValidTags(_)
ValidTags(refs) ==
    IF refs = <<>> THEN <<>>
    ELSE IF IsValid(refs[1].name)
    THEN <<refs[1].name>> \o ValidTags(Tail(refs))
    ELSE ValidTags(Tail(refs))

\* variant: the list is left in iteration order
SemverSort_Unsorted(list) == list

\* semver.Sort: the list in ascending order of SortLess
RECURSIVE Insert(_, _)
Insert(x, sorted) ==
    IF sorted = <<>> THEN <<x>>
    ELSE IF SortLess(x, sorted[1]) THEN <<x>> \o sorted
    ELSE <<sorted[1]>> \o Insert(x, Tail(sorted))

RECURSIVE SemverSortFrom(_)
SemverSortFrom(list) ==
    IF list = <<>> THEN <<>>
    ELSE Insert(list[1], SemverSortFrom(Tail(list)))

SemverSort(list) == SemverSortFrom(list)

\* variant: the first element of the sorted list instead of the last
LastOf_First(sorted) ==
    IF Len(sorted) = 0
    THEN [tag |-> EmptyStr, err |-> "no version tags found in the repository"]
    ELSE [tag |-> sorted[1], err |-> NoErr]

\* lastTag from the sorted list on: the check for no tags, then the last one
LastOf(sorted) ==
    IF Len(sorted) = 0
    THEN [tag |-> EmptyStr, err |-> "no version tags found in the repository"]
    ELSE [tag |-> sorted[Len(sorted)], err |-> NoErr]

lastTag(refs) == LastOf(SemverSort(ValidTags(refs)))

\* lastTag of src/main.go: the last element is taken without the check for
\* an empty list, and the index expression panics on one
mainLastOf(sorted) ==
    IF Len(sorted) = 0
    THEN [tag |-> EmptyStr, err |-> "panic: index out of range"]
    ELSE [tag |-> sorted[Len(sorted)], err |-> NoErr]

mainLastTag(refs) == mainLastOf(SemverSort(ValidTags(refs)))

(***************************************************************************)
(* commit, add and tagVersion on the repository                            *)
(***************************************************************************)
\* variant: the whole working tree is staged
add_WholeTree(idx, fs, path) == fs

\* variant: the file is not staged
add_NotStaged(idx, fs, path) == idx

\* add: Worktree.Add(path) stages the file's working-tree content
add(idx, fs, path) == [idx EXCEPT ![path] = fs[path]]

\* variant: the new commit takes the tree of its parent, not the index
commit_ParentTree(cs, idx, message, reject) ==
    IF idx = cs[Len(cs)].tree /\ reject
    THEN [commits |-> cs, err |-> "cannot create empty commit"]
    ELSE [commits |-> Append(cs, [tree |-> cs[Len(cs)].tree, message |-> message]),
          err |-> NoErr]

\* commit: Worktree.Commit(message, &git.CommitOptions{}) commits the index.
\* A commit whose tree equals HEAD's is refused by the git library when
\* reject holds and created otherwise.
commit(cs, idx, message, reject) ==
    IF idx = cs[Len(cs)].tree /\ reject
    THEN [commits |-> cs, err |-> "cannot create empty commit"]
    ELSE [commits |-> Append(cs, [tree |-> idx, message |-> message]),
          err |-> NoErr]

BumpMessage(version) == [text |-> "bump version to", version |-> version]

\* variant: an existing tag of that name is replaced instead of refused
tagVersion_Overwrite(ts, cs, c, version) ==
    IF c.dryRun
    THEN [tags |-> ts, hash |-> CommitHash(Len(cs)), err |-> NoErr]
    ELSE [tags |-> {t \in ts : t.name # version}
                     \cup {[name |-> version, target |-> Len(cs),
                            annotated |-> TRUE,
                            message |-> "tag created by bump"]},
          hash |-> TagObjectHash(Len(cs), version), err |-> NoErr]

\* variant: the tag is put on the commit HEAD had before the bump commit
tagVersion_Parent(ts, cs, c, version) ==
    LET at == IF Len(cs) > 1 THEN Len(cs) - 1 ELSE Len(cs) IN
    IF c.dryRun
    THEN [tags |-> ts, hash |-> CommitHash(Len(cs)), err |-> NoErr]
    ELSE IF \E t \in ts : t.name = version
    THEN [tags |-> ts, hash |-> NoHash, err |-> "failed to create tag"]
    ELSE [tags |-> ts \cup {[name |-> version, target |-> at,
                             annotated |-> TRUE,
                             message |-> "tag created by bump"]},
          hash |-> TagObjectHash(at, version), err |-> NoErr]

\* tagVersion: the annotated tag at HEAD, or just HEAD's hash in a dry run
tagVersion(ts, cs, c, version) ==
    IF c.dryRun
    THEN [tags |-> ts, hash |-> CommitHash(Len(cs)), err |-> NoErr]
    ELSE IF \E t \in ts : t.name = version
    THEN [tags |-> ts, hash |-> NoHash, err |-> "failed to create tag"]
    ELSE [tags |-> ts \cup {[name |-> version, target |-> Len(cs),
                             annotated |-> TRUE,
                             message |-> "tag created by bump"]},
          hash |-> TagObjectHash(Len(cs), version), err |-> NoErr]

(***************************************************************************)
(* Init: a repository with one commit, some tags, and a command line       *)
(***************************************************************************)
Readme == File(<<"a">>)

ReadmeEdited == File(<<"b">>)

RootContents == {Absent, File(EmptyStr), File(V100), File(NotAVersion)}

SubContents == {Absent, File(V101), File(NotAVersion)}

\* a .bumpignore file with the anchored rule /sub
IgnoreSub == File(<<"/">> \o Sub \o <<"\n">>)

\* the trees tried; those with a .bumpignore file hold both .version files
Trees ==
    {t \in [FilePaths -> RootContents \cup SubContents \cup {Readme, IgnoreSub}] :
        /\ t[".version"] \in RootContents
        /\ t["sub/.version"] \in SubContents
        /\ t["README.md"] = Readme
        /\ t[".bumpignore"] \in {Absent, IgnoreSub}
        /\ t[".bumpignore"].exists
              => t[".version"] = File(V100) /\ t["sub/.version"].exists}

NoVersionFiles(t) == [p \in FilePaths |-> IF p \in VersionFilePaths THEN Absent ELSE t[p]]

LightTag(name) ==
    [name |-> name, target |-> 1, annotated |-> FALSE, message |-> ""]

TagSets == {{LightTag(n) : n \in S} : S \in {T \in SUBSET TagNames : Cardinality(T) <= MaxTags}}

AllArgs ==
    [version : VersionArgs, patch : BOOLEAN, minor : BOOLEAN, major : BOOLEAN,
     dryRun : BOOLEAN, force : BOOLEAN, help : BOOLEAN, extra : BOOLEAN]

\* the command lines tried: at most one of -patch, -minor, -major and a stray
\* argument, or -patch together with -major, or -help with anything else
ArgsInputs ==
    {a \in AllArgs :
        \/ Cardinality({f \in {"patch", "minor", "major", "help", "extra"} : a[f]}) <= 1
        \/ (a.patch /\ a.major /\ ~a.minor /\ ~a.help /\ ~a.extra)
        \/ a.help}

InitialCommit(t) == [tree |-> t, message |-> [text |-> "initial", version |-> EmptyStr]]

InitRepo ==
    \E t \in Trees, dirty \in {"clean", "unstaged", "staged", "untracked"} :
        /\ files = IF dirty \in {"unstaged", "staged"}
                   THEN [t EXCEPT !["README.md"] = ReadmeEdited] ELSE t
        /\ index = IF dirty = "staged" THEN [t EXCEPT !["README.md"] = ReadmeEdited]
                   ELSE IF dirty = "untracked" THEN NoVersionFiles(t)
                   ELSE t
        /\ commits = <<InitialCommit(IF dirty = "untracked" THEN NoVersionFiles(t) ELSE t)>>
        /\ tags \in TagSets
        /\ emptyCommitErr \in BOOLEAN

InitRun ==
    /\ pc = "start"
    /\ pos = 1
    /\ cfg = EmptyConfig
    /\ currentVersion = EmptyStr
    /\ newVersion = EmptyStr
    /\ err = NilErr
    /\ output = <<>>
    /\ hash = NoHash
    /\ pre = [files |-> files, index |-> index, commits |-> commits, tags |-> tags]
    /\ ret = NoRet

Init ==
    /\ InitRepo
    /\ args \in ArgsInputs
    /\ InitRun

(***************************************************************************)
(* run, up to the call of updateVersionFiles                               *)
(***************************************************************************)
Fail(e) ==
    /\ pc' = "done"
    /\ err' = e

Banner == [text |-> "bump", path |-> "", version |-> EmptyStr, hash |-> NoHash]

\* run with the version to set in hand: on to updateVersionFiles
Update(c, current, version) ==
    /\ pc' = "walk"
    /\ cfg' = c
    /\ currentVersion' = current
    /\ newVersion' = version
    /\ UNCHANGED err

\* variant: the error is recorded but run goes on to the update step
FailWith_GoesOn(c, current, e) ==
    /\ pc' = "walk"
    /\ err' = e
    /\ cfg' = c
    /\ currentVersion' = current
    /\ UNCHANGED newVersion

FailWith(c, current, e) ==
    /\ Fail(e)
    /\ cfg' = c
    /\ currentVersion' = current
    /\ UNCHANGED newVersion

\* run, increment mode, with the results of lastTag and incrementVersion
Incremented(c, lt, iv) ==
    IF lt.err # NoErr
    THEN FailWith(c, EmptyStr, Error("failed to get last tag", lt.err))
    ELSE IF iv.err # NoErr
    THEN FailWith(c, lt.tag, Error("incrementVersion", iv.err))
    ELSE Update(c, lt.tag, iv.version)

Increment(c, lt) == Incremented(c, lt, incrementVersion(lt.tag, c))

\* variant: the result showHelp of getConfig is not looked at
Configured_HelpIgnored(gc, refs) ==
    IF gc.err # NoErr
    THEN FailWith(EmptyConfig, EmptyStr, Error("getConfig", gc.err))
    ELSE IF ~IsClean(files, index, commits) /\ ~gc.cfg.forced
    THEN FailWith(gc.cfg, EmptyStr, Error("run", "repository is not clean"))
    ELSE IF gc.cfg.version # EmptyStr
    THEN IF ~IsValid(gc.cfg.version)
         THEN FailWith(gc.cfg, EmptyStr,
                       Error("run", "invalid semantic version string"))
         ELSE Update(gc.cfg, EmptyStr, gc.cfg.version)
    ELSE Increment(gc.cfg, lastTag(refs))

\* variant: the last tag is looked up before an explicit version is set
Configured_AlwaysResolve(gc, refs) ==
    IF gc.err # NoErr
    THEN FailWith(EmptyConfig, EmptyStr, Error("getConfig", gc.err))
    ELSE IF gc.showHelp
    THEN FailWith(EmptyConfig, EmptyStr, NilErr)
    ELSE IF ~IsClean(files, index, commits) /\ ~gc.cfg.forced
    THEN FailWith(gc.cfg, EmptyStr, Error("run", "repository is not clean"))
    ELSE IF gc.cfg.version # EmptyStr
    THEN IF ~IsValid(gc.cfg.version)
         THEN FailWith(gc.cfg, EmptyStr,
                       Error("run", "invalid semantic version string"))
         ELSE IF lastTag(refs).err # NoErr
         THEN FailWith(gc.cfg, EmptyStr,
                       Error("failed to get last tag", lastTag(refs).err))
         ELSE Update(gc.cfg, lastTag(refs).tag, gc.cfg.version)
    ELSE Increment(gc.cfg, lastTag(refs))

\* run after getConfig: help, the clean check, then set or increment
Configured(gc, refs) ==
    IF gc.err # NoErr
    THEN FailWith(EmptyConfig, EmptyStr, Error("getConfig", gc.err))
    ELSE IF gc.showHelp
    THEN FailWith(EmptyConfig, EmptyStr, NilErr)
    ELSE IF ~IsClean(files, index, commits) /\ ~gc.cfg.forced
    THEN FailWith(gc.cfg, EmptyStr, Error("run", "repository is not clean"))
    ELSE IF gc.cfg.version # EmptyStr
    THEN IF ~IsValid(gc.cfg.version)
         THEN FailWith(gc.cfg, EmptyStr,
                       Error("run", "invalid semantic version string"))
         ELSE Update(gc.cfg, EmptyStr, gc.cfg.version)
    ELSE Increment(gc.cfg, lastTag(refs))

Start ==
    /\ pc = "start"
    /\ output' = Append(output, Banner)
    /\ UNCHANGED <<repoVars, emptyCommitErr, args, pos, hash, pre, ret>>
    /\ \E refs \in TagOrders(tags) : Configured(getConfig(args), refs)

(***************************************************************************)
(* updateVersionFiles: the walk, one entry at a time, then the commit      *)
(***************************************************************************)
\* variant: only the .version file at the root of the tree is taken
Skipped_Nested(e, fs) ==
    \/ e.isDir
    \/ e.path # ".version"
    \/ ~fs[e.path].exists

\* the walk callback returns nil at once: a directory, another name, or an
\* entry that is not in the working tree
Skipped(e, fs) ==
    \/ e.isDir
    \/ e.name # ".version"
    \/ ~fs[e.path].exists

\* variant: the content of the file is not validated
ContentOk_Unchecked(content) == TRUE

\* content must either be empty or a valid semver
ContentOk(content) == ~(Len(content) > 0 /\ ~IsValid(content))

UpdatingLine(path, version) ==
    [text |-> "Updating version in file", path |-> path, version |-> version,
     hash |-> NoHash]

\* variant: a dry run returns before the progress line is printed
Visit_QuietDryRun ==
    /\ pc = "walk"
    /\ pos <= Len(Entries)
    /\ UNCHANGED <<repoVars, emptyCommitErr, args, cfg, currentVersion,
                   newVersion, hash, pre, ret>>
    /\ LET e == Entries[pos]
           content == files[e.path].data
       IN
       IF Skipped(e, files)
       THEN /\ pos' = pos + 1
            /\ UNCHANGED <<pc, err, output>>
       ELSE IF ~ContentOk(content)
       THEN /\ Fail([step |-> "updateVersionFiles",
                     msg |-> "invalid version in file",
                     path |-> e.path, content |-> content])
            /\ UNCHANGED <<pos, output>>
       ELSE /\ UNCHANGED err
            /\ IF cfg.dryRun
               THEN /\ pos' = pos + 1
                    /\ UNCHANGED <<pc, output>>
               ELSE /\ output' = Append(output, UpdatingLine(e.path, newVersion))
                    /\ pc' = "write"
                    /\ UNCHANGED pos

\* the callback up to the dry-run test: read, validate, print
Visit ==
    /\ pc = "walk"
    /\ pos <= Len(Entries)
    /\ UNCHANGED <<repoVars, emptyCommitErr, args, cfg, currentVersion,
                   newVersion, hash, pre, ret>>
    /\ LET e == Entries[pos]
           content == files[e.path].data
       IN
       IF Skipped(e, files)
       THEN /\ pos' = pos + 1
            /\ UNCHANGED <<pc, err, output>>
       ELSE IF ~ContentOk(content)
       THEN /\ Fail([step |-> "updateVersionFiles",
                     msg |-> "invalid version in file",
                     path |-> e.path, content |-> content])
            /\ UNCHANGED <<pos, output>>
       ELSE /\ output' = Append(output, UpdatingLine(e.path, newVersion))
            /\ UNCHANGED err
            /\ IF cfg.dryRun
               THEN /\ pos' = pos + 1
                    /\ UNCHANGED pc
               ELSE /\ pc' = "write"
                    /\ UNCHANGED pos

\* the rest of the callback: write the new version to the file and add it
Write ==
    /\ pc = "write"
    /\ files' = [files EXCEPT ![Entries[pos].path] = File(newVersion)]
    /\ index' = add(index, files', Entries[pos].path)
    /\ pos' = pos + 1
    /\ pc' = "walk"
    /\ UNCHANGED <<commits, tags, emptyCommitErr, args, cfg, currentVersion,
                   newVersion, err, output, hash, pre, ret>>

\* after the walk: commit the changes
Commit ==
    /\ pc = "walk"
    /\ pos > Len(Entries)
    /\ LET r == commit(commits, index, BumpMessage(newVersion), emptyCommitErr)
       IN /\ commits' = r.commits
          /\ IF r.err # NoErr
             THEN Fail(Error("updateVersionFiles", r.err))
             ELSE /\ pc' = "tag"
                  /\ UNCHANGED err
    /\ UNCHANGED <<files, index, tags, emptyCommitErr, args, cfg, pos,
                   currentVersion, newVersion, output, hash, pre, ret>>

(***************************************************************************)
(* run, after updateVersionFiles: tagVersion and the report                *)
(***************************************************************************)
ReportLine(c, version, h) ==
    [text |-> IF c.version # EmptyStr THEN "Set version" ELSE "Bumped version",
     path |-> "", version |-> version, hash |-> h]

TagVersion ==
    /\ pc = "tag"
    /\ LET r == tagVersion(tags, commits, cfg, newVersion)
       IN /\ tags' = r.tags
          /\ hash' = r.hash
          /\ pc' = "done"
          /\ IF r.err # NoErr
             THEN /\ err' = Error("tagVersion", r.err)
                  /\ UNCHANGED output
             ELSE /\ output' = Append(output, ReportLine(cfg, newVersion, r.hash))
                  /\ UNCHANGED err
    /\ UNCHANGED <<files, index, commits, emptyCommitErr, args, cfg, pos,
                   currentVersion, newVersion, pre, ret>>

Next ==
    \/ Start
    \/ Visit
    \/ Write
    \/ Commit
    \/ TagVersion

Spec == Init /\ [][Next]_vars

(***************************************************************************)
(* incrementVersion called on its own, on inputs drawn from a set          *)
(***************************************************************************)
\* 2^63 - 2
MaxInt64Less1 ==
    <<"9", "2", "2", "3", "3", "7", "2", "0", "3", "6",
      "8", "5", "4", "7", "7", "5", "8", "0", "6">>

Components ==
    {<<"0">>, <<"1">>, <<"2">>, <<"9">>, <<"0", "7">>, <<"9", "9", "9">>,
     MaxInt64Less1, MaxInt64, MinInt64Mag}

Ver(major, minor, patch) ==
    <<"v">> \o major \o <<".">> \o minor \o <<".">> \o patch

ExactVersions == {Ver(a, b, c) : a \in Components, b \in Components, c \in Components}

OtherVersions ==
    {EmptyStr, NotAVersion, V12, V101a, <<"v", "1", "0", "0">>,
     <<"1", ".", "0", ".", "0">>, <<"v", "1", ".", "0", ".", "0", ".", "0">>,
     <<"v", "+", "1", ".", "2", ".", "3">>, <<"v", "-", "1", ".", "2", ".", "3">>,
     <<"v", "1", ".", "x", ".", "3">>, <<"v", "1", ".", "0", ".", "1", "+", "b">>}

IncInputs == ExactVersions \cup OtherVersions

InitInc ==
    /\ files = [p \in FilePaths |-> IF p = "README.md" THEN Readme ELSE Absent]
    /\ index = files
    /\ commits = <<InitialCommit(files)>>
    /\ tags = {}
    /\ emptyCommitErr = TRUE
    /\ args = [version |-> EmptyStr, patch |-> FALSE, minor |-> FALSE,
               major |-> FALSE, dryRun |-> FALSE, force |-> FALSE,
               help |-> FALSE, extra |-> FALSE]
    /\ cfg \in {[EmptyConfig EXCEPT !.action = a] : a \in Actions \cup {OtherAction}}
    /\ currentVersion \in IncInputs
    /\ pc = "call"
    /\ pos = 1
    /\ newVersion = EmptyStr
    /\ err = NilErr
    /\ output = <<>>
    /\ hash = NoHash
    /\ pre = [files |-> files, index |-> index, commits |-> commits, tags |-> tags]
    /\ ret = NoRet

Returned(r) ==
    /\ newVersion' = r.version
    /\ err' = IF r.err = NoErr THEN NilErr ELSE Error("incrementVersion", r.err)

CallIncrementVersion ==
    /\ pc = "call"
    /\ pc' = "returned"
    /\ Returned(incrementVersion(currentVersion, cfg))
    /\ UNCHANGED <<repoVars, emptyCommitErr, args, cfg, pos, currentVersion,
                   output, hash, pre, ret>>

NextInc == CallIncrementVersion

SpecInc == InitInc /\ [][NextInc]_vars

(***************************************************************************)
(* lastTag called on its own, on tag sets in every iteration order         *)
(***************************************************************************)
\* with v1.0.0+b, equal to v1.0.0 in precedence, a second name that is not
\* a semantic version, and a version whose patch is the largest int
MoreTagNames ==
    TagNames \cup {<<"v", "1", ".", "0", ".", "0", "+", "b">>, <<"x">>,
                   Ver(<<"1">>, <<"0">>, MaxInt64)}

NoArgs ==
    [version |-> EmptyStr, patch |-> FALSE, minor |-> FALSE, major |-> FALSE,
     dryRun |-> FALSE, force |-> FALSE, help |-> FALSE, extra |-> FALSE]

ReadmeTree == [p \in FilePaths |-> IF p = "README.md" THEN Readme ELSE Absent]

\* the committed tree t, with the tags ts
Bare(t, ts) ==
    /\ files = t
    /\ index = files
    /\ commits = <<InitialCommit(files)>>
    /\ tags = ts
    /\ emptyCommitErr = TRUE
    /\ pos = 1
    /\ output = <<>>
    /\ hash = NoHash
    /\ pre = [files |-> files, index |-> index, commits |-> commits, tags |-> tags]
    /\ ret = NoRet

InitTag ==
    /\ \E S \in {T \in SUBSET MoreTagNames : Cardinality(T) <= MaxTags + 2} :
          Bare(ReadmeTree, {LightTag(n) : n \in S})
    /\ args = NoArgs
    /\ cfg = EmptyConfig
    /\ pc = "call"
    /\ currentVersion = EmptyStr
    /\ newVersion = EmptyStr
    /\ err = NilErr

TagReturned(r, step, to) ==
    /\ pc' = to
    /\ currentVersion' = r.tag
    /\ err' = IF r.err = NoErr THEN NilErr ELSE Error(step, r.err)

CallLastTag ==
    /\ pc = "call"
    /\ \E refs \in TagOrders(tags) : TagReturned(lastTag(refs), "lastTag", "returned")
    /\ UNCHANGED <<repoVars, emptyCommitErr, args, cfg, pos, newVersion,
                   output, hash, pre, ret>>

CallMainLastTag ==
    /\ pc = "call"
    /\ \E refs \in TagOrders(tags) :
          TagReturned(mainLastTag(refs), "lastTag of main.go", "returned from main.go")
    /\ UNCHANGED <<repoVars, emptyCommitErr, args, cfg, pos, newVersion,
                   output, hash, pre, ret>>

\* run, increment mode: incrementVersion on the tag lastTag returned
ThenIncrementVersion ==
    /\ pc = "returned"
    /\ err = NilErr
    /\ pc' = "incremented"
    /\ \E a \in BumpKinds :
          /\ cfg' = [cfg EXCEPT !.action = a]
          /\ Returned(incrementVersion(currentVersion, [cfg EXCEPT !.action = a]))
    /\ UNCHANGED <<repoVars, emptyCommitErr, args, pos, currentVersion,
                   output, hash, pre, ret>>

NextTag == CallLastTag \/ CallMainLastTag \/ ThenIncrementVersion

SpecTag == InitTag /\ [][NextTag]_vars

(***************************************************************************)
(* getConfig called on its own, on every combination of the flags          *)
(***************************************************************************)
InitCfg ==
    /\ Bare(ReadmeTree, {})
    /\ args \in AllArgs
    /\ cfg = EmptyConfig
    /\ pc = "call"
    /\ currentVersion = EmptyStr
    /\ newVersion = EmptyStr
    /\ err = NilErr

ConfigReturned(gc) ==
    /\ pc' = IF gc.showHelp THEN "returned help" ELSE "returned"
    /\ cfg' = gc.cfg
    /\ err' = IF gc.err = NoErr THEN NilErr ELSE Error("getConfig", gc.err)

CallGetConfig ==
    /\ pc = "call"
    /\ ConfigReturned(getConfig(args))
    /\ UNCHANGED <<repoVars, emptyCommitErr, args, pos, currentVersion,
                   newVersion, output, hash, pre, ret>>

NextCfg == CallGetConfig

SpecCfg == InitCfg /\ [][NextCfg]_vars

(***************************************************************************)
(* loadIgnoreRules and shouldIgnore called on their own                    *)
(***************************************************************************)
\* most lines a .bumpignore file holds
MaxLines == 2

\* blank, comment, anchored and unanchored lines, plain and padded
IgnoreLines ==
    {<<>>, <<" ", "\t">>, <<"#", " ">> \o Sub, <<"/">> \o Sub, Sub,
     <<" ", " ", "/">> \o Docs \o <<" ", " ">>, <<" ">> \o Docs \o <<"\t">>}

LineSeqs == UNION {[1..n -> IgnoreLines] : n \in 0..MaxLines}

\* the content of a file of these lines; the last line may lack its newline
RECURSIVE JoinLines(_, _)
JoinLines(ls, final) ==
    IF ls = <<>> THEN <<>>
    ELSE IF Len(ls) = 1 /\ ~final THEN ls[1]
    ELSE ls[1] \o <<"\n">> \o JoinLines(Tail(ls), final)

IgnoreFiles ==
    {Absent} \cup {File(JoinLines(ls, f)) : ls \in LineSeqs, f \in BOOLEAN}

\* the directories shouldIgnore is asked about: relative path and name
IgnoreDirs ==
    {[path |-> Sub, dirName |-> Sub],
     [path |-> Docs, dirName |-> Docs],
     [path |-> Docs \o <<"/">> \o Sub, dirName |-> Sub],
     [path |-> Sub \o <<"/">> \o Docs, dirName |-> Docs]}

InitIgn ==
    /\ \E f \in IgnoreFiles : Bare([ReadmeTree EXCEPT ![".bumpignore"] = f], {})
    /\ args = NoArgs
    /\ cfg = EmptyConfig
    /\ pc = "call"
    /\ currentVersion = EmptyStr
    /\ newVersion = EmptyStr
    /\ err = NilErr

CallLoadIgnoreRules ==
    /\ pc = "call"
    /\ pc' = "loaded"
    /\ ret' = [NoRet EXCEPT !.rules = loadIgnoreRules(files[".bumpignore"]).rules,
                           !.err = loadIgnoreRules(files[".bumpignore"]).err]
    /\ UNCHANGED <<repoVars, emptyCommitErr, args, cfg, pos, currentVersion,
                   newVersion, err, output, hash, pre>>

CallShouldIgnore ==
    /\ pc = "loaded"
    /\ pc' = "matched"
    /\ \E d \in IgnoreDirs :
          ret' = [ret EXCEPT !.path = d.path, !.dirName = d.dirName,
                             !.ignored = shouldIgnore(d.path, d.dirName, ret.rules)]
    /\ UNCHANGED <<repoVars, emptyCommitErr, args, cfg, pos, currentVersion,
                   newVersion, err, output, hash, pre>>

NextIgn == CallLoadIgnoreRules \/ CallShouldIgnore

SpecIgn == InitIgn /\ [][NextIgn]_vars

(***************************************************************************)
(* bump run again and again on the same repository, each run started       *)
(* after the one before it has returned without an error                  *)
(***************************************************************************)
\* how many commits the repository may hold when another run is started
MaxRuns == 2

RunsTagNames == {V100, V101a, Ver(<<"1">>, MaxInt64, <<"0">>)}

\* the command lines of increment runs without -force: one increment flag
\* or none, with or without -dry-run
RunsArgs ==
    {a \in ArgsInputs :
        /\ a.version = EmptyStr
        /\ ~a.force /\ ~a.help /\ ~a.extra
        /\ ~(a.patch /\ a.major)}

\* a clean repository without a .bumpignore file
InitRuns ==
    /\ \E t \in {u \in Trees : ~u[".bumpignore"].exists},
          S \in {T \in SUBSET RunsTagNames : Cardinality(T) <= MaxTags} :
          /\ files = t
          /\ index = t
          /\ commits = <<InitialCommit(t)>>
          /\ tags = {LightTag(n) : n \in S}
    /\ emptyCommitErr \in BOOLEAN
    /\ args \in RunsArgs
    /\ InitRun

\* main is started again, with another command line, on the repository the
\* run before it left
Again ==
    /\ pc = "done"
    /\ err = NilErr
    /\ Len(commits) <= MaxRuns
    /\ args' \in RunsArgs
    /\ pc' = "start"
    /\ pos' = 1
    /\ cfg' = EmptyConfig
    /\ currentVersion' = EmptyStr
    /\ newVersion' = EmptyStr
    /\ output' = <<>>
    /\ hash' = NoHash
    /\ pre' = [files |-> files, index |-> index, commits |-> commits, tags |-> tags]
    /\ UNCHANGED <<repoVars, emptyCommitErr, err, ret>>

NextRuns ==
    \/ Next
    \/ Again

SpecRuns == InitRuns /\ [][NextRuns]_vars

(***************************************************************************)
(* Properties                                                              *)
(***************************************************************************)
\* the .version files the walk of this run finds
Found == {p \in VersionFilePaths : pre.files[p].exists}

\* run got as far as calling updateVersionFiles
UpdateCalled == newVersion # EmptyStr /\ pc \in {"walk", "write", "tag", "done"}

\* updateVersionFiles has returned, with or without an error
UpdateReturned == newVersion # EmptyStr /\ pc \in {"tag", "done"}

CommitsMade == Len(commits) - Len(pre.commits)

RepoUnchanged ==
    /\ files = pre.files
    /\ index = pre.index
    /\ commits = pre.commits
    /\ tags = pre.tags

TagExisted(name) == \E t \in pre.tags : t.name = name

\* a file content updateVersionFiles must refuse
BadContent(d) == Len(d) > 0 /\ ~IsValid(d)

\* the repository was not clean when run was invoked
WasDirty ==
    \/ pre.files # pre.index
    \/ pre.index # pre.commits[Len(pre.commits)].tree

\* C1: when run is invoked with -version V and a tag named V already
\* exists, run returns an error, the commit count is the same as before the
\* run and no .version file's content is changed.
C1_ExistingTagLeavesRepoAlone ==
    (/\ pc = "done"
     /\ cfg.version # EmptyStr
     /\ IsValid(cfg.version)
     /\ ~cfg.dryRun
     /\ TagExisted(cfg.version))
    => /\ err # NilErr
       /\ CommitsMade = 0
       /\ \A p \in VersionFilePaths : files[p] = pre.files[p]

C3_DryRunChangesNothing ==
    (/\ pc = "done"
     /\ cfg.dryRun
     /\ UpdateCalled
     /\ \A p \in Found : ~BadContent(pre.files[p].data))
    => /\ err = NilErr
       /\ RepoUnchanged
       /\ hash = CommitHash(Len(pre.commits))

\* a non-dry run that bumped and returned nil
Succeeded == pc = "done" /\ err = NilErr /\ UpdateCalled /\ ~cfg.dryRun

\* C4: after a successful non-dry run an annotated tag named exactly the
\* target version exists and points at the commit this run's update step
\* created (the new HEAD), whose tree holds the rewritten .version files;
\* in no execution is the tag created before that commit.
C4_TagPointsAtBumpCommit ==
    /\ [](Succeeded =>
            /\ CommitsMade = 1
            /\ commits[Len(commits)].message = BumpMessage(newVersion)
            /\ \A p \in Found : HeadTree[p] = File(newVersion)
            /\ \E t \in tags : /\ t.name = newVersion
                               /\ t.annotated
                               /\ t.target = Len(commits)
                               /\ ~TagExisted(newVersion)
                               /\ \A u \in tags : u.name = t.name => u = t)
    /\ [][tags' # tags => /\ CommitsMade = 1
                          /\ commits' = commits
                          /\ \A t \in tags' \ tags : t.target = Len(commits)]_vars

C4_Witness ==
    /\ Succeeded
    /\ pre.files[".version"] = File(V100)
    /\ HeadTree[".version"] = File(newVersion)
    /\ \E t \in tags \ pre.tags : t.name = newVersion /\ t.target = Len(commits)

\* the valid tags no valid tag of the repository takes precedence over
HighestTags(ts) ==
    {n \in {t.name : t \in ts} :
        /\ IsValid(n)
        /\ \A t \in ts : IsValid(t.name) => Compare(t.name, n) <= 0}

\* C5: a successful increment run (no -version) on a repository whose
\* highest semantic-version tag is T sets every .version file to
\* incrementVersion(T, kind), creates a new commit and creates the tag
\* incrementVersion(T, kind); the new version comes from the highest tag
\* only, never from what the .version files held.
C5_IncrementFromHighestTag ==
    (Succeeded /\ cfg.version = EmptyStr)
    => \E T \in HighestTags(pre.tags) :
          LET v == incrementVersion(T, cfg) IN
          /\ currentVersion = T
          /\ v.err = NoErr
          /\ newVersion = v.version
          /\ \A p \in Found : files[p] = File(v.version)
          /\ CommitsMade = 1
          /\ \E t \in tags \ pre.tags : t.name = v.version

C5_Witness ==
    /\ Succeeded
    /\ cfg.version = EmptyStr
    /\ cfg.action = "incrementPatch"
    /\ {t.name : t \in pre.tags} = {V100, V101}
    /\ pre.files[".version"] = File(V100)
    /\ files[".version"] = File(<<"v", "1", ".", "0", ".", "2">>)

\* C6: in normal mode, after updateVersionFiles succeeds on a tree with at
\* least one .version file, every such file, whatever valid or empty
\* content it held, holds exactly the new version string, and exactly one
\* new commit, with message 'bump version to <version>', has been made.
C6_AllFilesRewrittenOneCommit ==
    (pc = "tag" /\ ~cfg.dryRun /\ Found # {})
    => /\ \A p \in Found : files[p] = File(newVersion)
       /\ CommitsMade = 1
       /\ commits[Len(commits)].message = BumpMessage(newVersion)

C6_Witness ==
    /\ pc = "tag"
    /\ ~cfg.dryRun
    /\ pre.files[".version"] = File(EmptyStr)
    /\ pre.files["sub/.version"] = File(V101)
    /\ newVersion # V101
    /\ files[".version"] = File(newVersion)
    /\ files["sub/.version"] = File(newVersion)

\* C7: when updateVersionFiles finds no .version file to update it returns
\* without error and creates no commit.
C7_NoFilesNoCommit ==
    (UpdateReturned /\ Found = {})
    => /\ err.step # "updateVersionFiles"
       /\ CommitsMade = 0

\* C8: when updateVersionFiles meets a .version file whose content is
\* non-empty and not a valid semantic version, it returns an 'invalid
\* version in file' error naming the path and the content, does not write
\* that file and creates no commit, so what it rewrote before that file is
\* not committed.
C8_InvalidContentAborts ==
    /\ (UpdateReturned /\ \E p \in Found : BadContent(pre.files[p].data))
       => err.msg = "invalid version in file"
    /\ err.msg = "invalid version in file"
       => /\ pc = "done"
          /\ err.path \in Found
          /\ err.content = pre.files[err.path].data
          /\ BadContent(err.content)
          /\ files[err.path] = pre.files[err.path]
          /\ index[err.path] = pre.index[err.path]
          /\ commits = pre.commits
          /\ tags = pre.tags

C8_Witness ==
    /\ err.msg = "invalid version in file"
    /\ err.path = "sub/.version"
    /\ err.content = NotAVersion
    /\ pre.files[".version"] = File(V100)
    /\ files[".version"] = File(newVersion)
    /\ HeadTree[".version"] # File(newVersion)

\* C9: if the working tree is not clean and -force is not given, run fails
\* with 'repository is not clean' before anything is written, staged,
\* committed or tagged; with -force the same run goes past the check.
C9_DirtyNeedsForce ==
    (/\ pc # "start"
     /\ getConfig(args).err = NoErr
     /\ ~args.help
     /\ WasDirty)
    => IF args.force
       THEN err.msg # "repository is not clean"
       ELSE /\ pc = "done"
            /\ err.msg = "repository is not clean"
            /\ RepoUnchanged

C9_Witness ==
    /\ pc = "done"
    /\ ~args.force
    /\ pre.files["README.md"] = ReadmeEdited
    /\ pre.index["README.md"] = Readme
    /\ Found # {}
    /\ err.msg = "repository is not clean"

\* y is the decimal numeral of x + 1
IsSuccessor(x, y) ==
    /\ DigitRun(y) = Len(y)
    /\ Len(y) > 0
    /\ StripZeros(y) = y
    /\ y # <<"0">>
    /\ StripZeros(DecDigits(y)) = StripZeros(x)

\* v is what the claim says a bump of kind action gives for vA.B.C
Bumped(a, b, c, action, v) ==
    LET parts == Split(v) IN
    /\ Len(parts) = 3
    /\ parts[1] # EmptyStr
    /\ parts[1][1] = "v"
    /\ CASE action = "incrementPatch" ->
              /\ Tail(parts[1]) = StripZeros(a)
              /\ parts[2] = StripZeros(b)
              /\ IsSuccessor(c, parts[3])
         [] action = "incrementMinor" ->
              /\ Tail(parts[1]) = StripZeros(a)
              /\ IsSuccessor(b, parts[2])
              /\ parts[3] = <<"0">>
         [] action = "incrementMajor" ->
              /\ IsSuccessor(a, Tail(parts[1]))
              /\ parts[2] = <<"0">>
              /\ parts[3] = <<"0">>
         [] OTHER -> FALSE


\* C10, as stated: for every version string vMAJOR.MINOR.PATCH with
\* non-negative integer components incrementVersion returns without error
\* vMAJOR.MINOR.(PATCH+1), vMAJOR.(MINOR+1).0 or v(MAJOR+1).0.0.
C10_AnyComponents ==
    (pc = "returned" /\ cfg.action \in BumpKinds)
    => \A a \in Components, b \in Components, c \in Components :
          currentVersion = Ver(a, b, c)
          => /\ err = NilErr
             /\ Bumped(a, b, c, cfg.action, newVersion)

FitsInt(x) == CompareInt(StripZeros(x), MaxInt64) <= 0

BelowMaxInt(x) == CompareInt(StripZeros(x), MaxInt64) < 0

\* C10, amended: the same for components of at most 2^63-1 (the largest
\* int), the component that is bumped being less than 2^63-1.
C10_IncrementArithmetic ==
    (pc = "returned" /\ cfg.action \in BumpKinds)
    => \A a \in Components, b \in Components, c \in Components :
          (/\ currentVersion = Ver(a, b, c)
           /\ FitsInt(a) /\ FitsInt(b) /\ FitsInt(c)
           /\ BelowMaxInt(CASE cfg.action = "incrementPatch" -> c
                            [] cfg.action = "incrementMinor" -> b
                            [] OTHER -> a))
          => /\ err = NilErr
             /\ Bumped(a, b, c, cfg.action, newVersion)

C10_Witness ==
    /\ pc = "returned"
    /\ cfg.action = "incrementPatch"
    /\ currentVersion = Ver(<<"9", "9", "9">>, <<"9", "9", "9">>, <<"9", "9", "9">>)
    /\ err = NilErr
    /\ newVersion = Ver(<<"9", "9", "9">>, <<"9", "9", "9">>, <<"1", "0", "0", "0">>)

\* the number of separators in a version string
NumDots(v) == Cardinality({i \in 1..Len(v) : v[i] = "."})

\* C11: whenever the bump kind is not patch, minor or major (the explicit
\* noAction included), incrementVersion returns an error and an empty
\* version string, whatever the input version is; on an input of three
\* integer components the error is the one of the switch's default case
C11_UnknownKindFails ==
    (pc = "returned" /\ cfg.action \notin BumpKinds)
        => /\ err # NilErr
           /\ err.step = "incrementVersion"
           /\ newVersion = EmptyStr
           /\ (currentVersion \in {V100, Ver(<<"9">>, <<"0", "7">>, MaxInt64)}
                  => err.msg = "invalid action")

C11_Witness ==
    /\ pc = "returned"
    /\ cfg.action = "noAction"
    /\ currentVersion = V100
    /\ err = Error("incrementVersion", "invalid action")
    /\ newVersion = EmptyStr

\* C12: an input that does not split into exactly three dot-separated
\* components gives the format error and an empty version string, whatever
\* the bump kind is
C12_WrongComponentCountFails ==
    (pc = "returned" /\ NumDots(currentVersion) # 2)
        => /\ err = Error("incrementVersion", "invalid version format")
           /\ newVersion = EmptyStr

C12_Witness ==
    /\ pc = "returned"
    /\ cfg.action = "incrementPatch"
    /\ currentVersion = <<"v", "1", ".", "0", ".", "0", ".", "0">>
    /\ err = Error("incrementVersion", "invalid version format")
    /\ newVersion = EmptyStr

\* the names of the tags that are valid semantic versions
ValidNames == {t.name : t \in {u \in tags : IsValid(u.name)}}

\* C13: on every set of tags holding at least one valid semantic version,
\* lastTag returns without error a valid tag that no valid tag exceeds in
\* semantic-version precedence (a pre-release below its release), whatever
\* order the tags are listed in and whatever other tags exist
C13_LastTagIsMaximum ==
    (pc = "returned" /\ ValidNames # {})
        => /\ err = NilErr
           /\ currentVersion \in ValidNames
           /\ \A n \in ValidNames : Compare(n, currentVersion) <= 0
           /\ ({V101a, V101} \subseteq ValidNames
                  /\ ValidNames \subseteq {V100, V101a, V101}
                  => currentVersion = V101)

C13_Witness ==
    /\ pc = "returned"
    /\ {t.name : t \in tags} = {V100, V101a, V101, NotAVersion}
    /\ currentVersion = V101
    /\ err = NilErr

\* C14: on a repository with no tags, or with tags none of which is a valid
\* semantic version, lastTag returns the error 'no version tags found in the
\* repository' and an empty string, and does not index the empty list
C14_NoTagsIsAnError ==
    (pc \in {"returned", "returned from main.go"} /\ ValidNames = {})
        => /\ err.msg = "no version tags found in the repository"
           /\ currentVersion = EmptyStr

\* the increment flags given on the command line
BumpFlags == {f \in {"patch", "minor", "major"} : args[f]}

\* what getConfig must do with the command line
ConflictsRefused ==
    /\ (args.version # EmptyStr /\ BumpFlags # {}) => err # NilErr
    /\ Cardinality(BumpFlags) > 1 => err # NilErr
    /\ err = NilErr
          => /\ (cfg.version # EmptyStr) # (cfg.action \in BumpKinds)
             /\ cfg.version # EmptyStr => cfg.action = "noAction"
             /\ cfg.version = args.version
             /\ args.patch => cfg.action = "incrementPatch"
             /\ args.minor => cfg.action = "incrementMinor"
             /\ args.major => cfg.action = "incrementMajor"
             /\ (args.version = EmptyStr /\ BumpFlags = {})
                   => cfg.action = "incrementPatch"

\* C15 as stated: getConfig returns an error when -version is combined with
\* -patch, -minor or -major and when more than one of them is given; in
\* every configuration it accepts exactly one of the explicit version and a
\* single bump kind is active, the kind being patch when neither is given
C15_ConflictsRefused ==
    pc \in {"returned", "returned help"} => ConflictsRefused

\* C15: the same on every command line without -help
C15_ConflictsRefusedWithoutHelp ==
    (pc \in {"returned", "returned help"} /\ ~args.help) => ConflictsRefused

C15_Witness ==
    /\ pc = "returned"
    /\ args.version = V101 /\ args.patch /\ ~args.help /\ ~args.extra
    /\ err = Error("getConfig", "cannot set version and increment flags at the same time")

RuleMatches(r, path, dirName) ==
    \/ r.anchored /\ path = r.pattern
    \/ ~r.anchored /\ dirName = r.pattern

\* C18: shouldIgnore(path, dirName, rules) is true exactly when some rule
\* matches: an anchored rule when path equals its pattern (docs/sub does not
\* match the anchored rule sub), an unanchored rule when dirName equals its
\* pattern at any depth; with no rules it is false
C18_IgnoredIffSomeRuleMatches ==
    pc = "matched"
        => /\ ret.ignored
                = (\E i \in 1..Len(ret.rules) :
                      RuleMatches(ret.rules[i], ret.path, ret.dirName))
           /\ ret.rules = <<>> => ~ret.ignored
           /\ (ret.rules = <<[pattern |-> Sub, anchored |-> TRUE]>>
                  /\ ret.path = Docs \o <<"/">> \o Sub) => ~ret.ignored
           /\ (ret.rules = <<[pattern |-> Sub, anchored |-> FALSE]>>
                  /\ ret.path = Docs \o <<"/">> \o Sub) => ret.ignored

C18_Witness ==
    /\ pc = "matched"
    /\ ret.rules = <<[pattern |-> Docs, anchored |-> TRUE],
                     [pattern |-> Sub, anchored |-> FALSE]>>
    /\ ret.path = Docs \o <<"/">> \o Sub
    /\ ret.dirName = Sub
    /\ ret.ignored

\* the rules a line of the file must give, line by line
ExpectedOfLine(line) ==
    IF line \in {<<"/">> \o Sub} THEN <<[pattern |-> Sub, anchored |-> TRUE]>>
    ELSE IF line = Sub THEN <<[pattern |-> Sub, anchored |-> FALSE]>>
    ELSE IF line = <<" ", " ", "/">> \o Docs \o <<" ", " ">>
    THEN <<[pattern |-> Docs, anchored |-> TRUE]>>
    ELSE IF line = <<" ">> \o Docs \o <<"\t">>
    THEN <<[pattern |-> Docs, anchored |-> FALSE]>>
    ELSE <<>>

RECURSIVE Expected(_)
Expected(ls) ==
    IF ls = <<>> THEN <<>> ELSE ExpectedOfLine(ls[1]) \o Expected(Tail(ls))

\* C19: loadIgnoreRules gives one rule per line that is neither blank nor a
\* comment, in file order, after trimming the line: an anchored rule with the
\* remainder as pattern for a line starting with '/', an unanchored rule with
\* the trimmed line as pattern otherwise; blank lines and lines starting with
\* '#' give no rule, and a missing file gives no rule and no error
C19_RulesOfFile ==
    pc = "loaded"
        => /\ ret.err = NoErr
           /\ ~files[".bumpignore"].exists => ret.rules = <<>>
           /\ \A ls \in LineSeqs, f \in BOOLEAN :
                 files[".bumpignore"] = File(JoinLines(ls, f))
                     => ret.rules = Expected(ls)

C19_Witness ==
    /\ pc = "loaded"
    /\ files[".bumpignore"]
          = File(<<"#", " ">> \o Sub \o <<"\n", " ", " ", "/">> \o Docs
                   \o <<" ", " ", "\n">>)
    /\ ret.rules = <<[pattern |-> Docs, anchored |-> TRUE]>>
    /\ ret.err = NoErr

\* the rules of the .bumpignore file the run started with
RulesAtStart == loadIgnoreRules(pre.files[".bumpignore"]).rules

\* the .version files beneath a directory the rules ignore
Ignored ==
    {p \in {"sub/.version"} \cap VersionFilePaths :
        shouldIgnore(Sub, Sub, RulesAtStart)}

WrittenLines == {output[i] : i \in 1..Len(output)}

\* C17: after the walk of a run (no dry run) on a tree with a .bumpignore
\* file, every .version file beneath a directory a rule matches has kept its
\* content, is not staged and has no progress line, and every other
\* .version file holds the new version
C17_IgnoredDirsUntouched ==
    (UpdateReturned /\ ~cfg.dryRun /\ pre.files[".bumpignore"].exists)
        => \A p \in Found :
              IF p \in Ignored
              THEN /\ files[p] = pre.files[p]
                   /\ index[p] = pre.index[p]
                   /\ UpdatingLine(p, newVersion) \notin WrittenLines
              ELSE files[p] = File(newVersion)

\* the .version files the walk visits before the entry at path q
VisitedBefore(q) ==
    {p \in Found :
        \E i, j \in 1..Len(Entries) :
            i < j /\ Entries[i].path = p /\ Entries[j].path = q}

\* C20: when updateVersionFiles fails on a .version file with invalid
\* content (no dry run), the .version files visited earlier in the walk hold
\* the new version in the working tree and in the index: they are left
\* rewritten and staged, with no commit made
C20_EarlierFilesStayRewritten ==
    (err.step = "updateVersionFiles" /\ err.msg = "invalid version in file"
       /\ ~cfg.dryRun)
        => /\ pc = "done"
           /\ \A p \in VisitedBefore(err.path) :
                 /\ files[p] = File(newVersion)
                 /\ index[p] = File(newVersion)
           /\ CommitsMade = 0

C20_Witness ==
    /\ pc = "done"
    /\ err.step = "updateVersionFiles"
    /\ err.path = "sub/.version"
    /\ ~cfg.dryRun
    /\ VisitedBefore(err.path) = {".version"}
    /\ pre.files[".version"] = File(EmptyStr)
    /\ pre.index[".version"] = File(EmptyStr)
    /\ newVersion = V101
    /\ files[".version"] = File(V101)
    /\ index[".version"] = File(V101)

\* the progress lines of the walk from entry i on, on the tree fs: one per
\* .version file, up to the first one with invalid content
RECURSIVE WalkLines(_, _, _)
WalkLines(i, fs, v) ==
    IF i > Len(Entries) THEN <<>>
    ELSE IF Entries[i].isDir \/ Entries[i].name # ".version"
            \/ ~fs[Entries[i].path].exists
    THEN WalkLines(i + 1, fs, v)
    ELSE IF BadContent(fs[Entries[i].path].data) THEN <<>>
    ELSE <<UpdatingLine(Entries[i].path, v)>> \o WalkLines(i + 1, fs, v)

IsUpdatingLine(l) == l.text = "Updating version in file"

UpdatingLines == SelectSeq(output, IsUpdatingLine)

C22_ExplicitVersionSkipsResolver ==
    (pc # "start" /\ cfg.version # EmptyStr /\ IsValid(cfg.version))
        => /\ currentVersion = EmptyStr
           /\ err.step \notin {"failed to get last tag", "incrementVersion"}
           /\ newVersion \in {EmptyStr, cfg.version}
           /\ (pc = "done" /\ ~cfg.dryRun /\ ~WasDirty
                 /\ ~TagExisted(cfg.version)
                 /\ (\A p \in Found : ~BadContent(pre.files[p].data))
                 /\ (\E p \in Found : pre.files[p] # File(cfg.version)))
                => err = NilErr
           /\ Succeeded
                => /\ \A p \in Found : files[p] = File(cfg.version)
                   /\ \E t \in tags \ pre.tags : t.name = cfg.version

C22_Witness ==
    /\ Succeeded
    /\ cfg.version = V101
    /\ {t.name : t \in pre.tags} = {NotAVersion}
    /\ pre.files[".version"] = File(V100)
    /\ files[".version"] = File(V101)
    /\ \E t \in tags : t.name = V101

\* the text of v between its first and second separator, and so on
DotsAt(v) == {i \in 1..Len(v) : v[i] = "."}

FirstDot(v) == CHOOSE i \in DotsAt(v) : \A j \in DotsAt(v) : i <= j

LastDot(v) == CHOOSE i \in DotsAt(v) : \A j \in DotsAt(v) : j <= i

Unsigned(s) == IF s # <<>> /\ s[1] \in {"+", "-"} THEN Tail(s) ELSE s

AllDigits(s) == s # <<>> /\ \A i \in 1..Len(s) : IsDigit(s[i])

\* v is exactly v, digits, a dot, digits, a dot, digits
FullyMatches(v) ==
    /\ v # <<>> /\ v[1] = "v"
    /\ NumDots(v) = 2
    /\ AllDigits(SubSeq(v, 2, FirstDot(v) - 1))
    /\ AllDigits(SubSeq(v, FirstDot(v) + 1, LastDot(v) - 1))
    /\ AllDigits(SubSeq(v, LastDot(v) + 1, Len(v)))

\* v has two separators and begins with v and three integers, each with an
\* optional sign, separated by dots; anything may follow the third one
PrefixMatches(v) ==
    /\ v # <<>> /\ v[1] = "v"
    /\ NumDots(v) = 2
    /\ AllDigits(Unsigned(SubSeq(v, 2, FirstDot(v) - 1)))
    /\ AllDigits(Unsigned(SubSeq(v, FirstDot(v) + 1, LastDot(v) - 1)))
    /\ Unsigned(SubSeq(v, LastDot(v) + 1, Len(v))) # <<>>
    /\ IsDigit(Unsigned(SubSeq(v, LastDot(v) + 1, Len(v)))[1])

SuffixAt(v) == {i \in 1..Len(v) : v[i] \in {"-", "+"}}

Core(v) ==
    IF SuffixAt(v) = {} THEN v
    ELSE SubSeq(v, 1, (CHOOSE i \in SuffixAt(v) : \A j \in SuffixAt(v) : i <= j) - 1)

\* the tag references that are valid semantic versions
ValidRefs == {t \in tags : IsValid(t.name)}

\* C24 as stated: what lastTag returns without error is the name of a tag
\* of the repository, a valid semantic version with a leading v and three
\* dot-separated numeric components, and the tags that are not valid
\* semantic versions neither are returned nor change the result
C24_ReturnsThreeComponents ==
    (pc = "returned" /\ err = NilErr)
        => /\ currentVersion \in {t.name : t \in tags}
           /\ IsValid(currentVersion)
           /\ FullyMatches(Core(currentVersion))
           /\ \A refs \in TagOrders(ValidRefs) : lastTag(refs).tag = currentVersion

\* C24: the same, a valid semantic version being what semver.IsValid
\* accepts, the short forms vMAJOR and vMAJOR.MINOR included
C24_ReturnsValidTag ==
    (pc = "returned" /\ err = NilErr)
        => /\ currentVersion \in {t.name : t \in tags}
           /\ IsValid(currentVersion)
           /\ currentVersion[1] = "v"
           /\ \A refs \in TagOrders(ValidRefs) : lastTag(refs).tag = currentVersion

C24_Witness ==
    /\ pc = "returned"
    /\ err = NilErr
    /\ {t.name : t \in tags} = {V12, V101, NotAVersion}
    /\ currentVersion = V12
    /\ ~FullyMatches(Core(currentVersion))

EarlySteps == {"getConfig", "run", "failed to get last tag", "incrementVersion"}

\* C26: when run fails before the update step (flags, dirty tree without
\* -force, invalid explicit version, no version tag, increment failure) it
\* has ended with no file, index entry, commit or tag changed and with no
\* later step executed: no target version, no progress line, no tag
C26_EarlyFailureChangesNothing ==
    err.step \in EarlySteps
        => /\ pc = "done"
           /\ RepoUnchanged
           /\ newVersion = EmptyStr
           /\ hash = NoHash
           /\ output = <<Banner>>

C26_Witness ==
    /\ pc = "done"
    /\ err = Error("incrementVersion", "invalid version format")
    /\ currentVersion = V12
    /\ pre.files[".version"] = File(V100)
    /\ ~WasDirty
    /\ RepoUnchanged

\* the tree of the commit that was HEAD when the run started
TreeAtStart == pre.commits[Len(pre.commits)].tree

\* C28: the one commit of a successful run (no dry run, no -force) differs
\* from the commit before it in the .version files of the tree, which hold
\* the new version, and in nothing else
C28_CommitHoldsOnlyVersionFiles ==
    (Succeeded /\ ~cfg.forced)
        => /\ CommitsMade = 1
           /\ pre.index = TreeAtStart
           /\ \A p \in FilePaths :
                 HeadTree[p] = IF p \in Found THEN File(newVersion)
                               ELSE TreeAtStart[p]

C28_Witness ==
    /\ Succeeded
    /\ ~cfg.forced
    /\ Found = {".version", "sub/.version"}
    /\ HeadTree # TreeAtStart
    /\ HeadTree["README.md"] = TreeAtStart["README.md"]
    /\ HeadTree[".version"] = File(newVersion)
    /\ HeadTree["sub/.version"] = File(newVersion)

\* C30: a step changes the content or the index entry of a path only while
\* updateVersionFiles is at a regular file named .version, and then only of
\* that file; the walk never writes at a directory, and every file with
\* another name has the content and index entry it had at the start
C30_OnlyVersionFilesTouched ==
    /\ [][\A p \in FilePaths :
            (files'[p] # files[p] \/ index'[p] # index[p])
                => /\ pc = "write"
                   /\ p = Entries[pos].path
                   /\ ~Entries[pos].isDir
                   /\ Entries[pos].name = ".version"]_vars
    /\ [](pc = "write" => ~Entries[pos].isDir /\ Entries[pos].name = ".version")
    /\ [](\A p \in FilePaths \ VersionFilePaths :
            files[p] = pre.files[p] /\ index[p] = pre.index[p])

C30_Witness ==
    /\ pc = "done"
    /\ pos > Len(Entries)
    /\ files["sub/.version"] # pre.files["sub/.version"]
    /\ index["sub/.version"] = files["sub/.version"]
    /\ pre.files["README.md"].exists
    /\ files["README.md"] = pre.files["README.md"]
    /\ index["README.md"] = pre.index["README.md"]

\* the tags that runs of bump created
RunTags(ts) == {t \in ts : t.annotated}

\* the tag the latest of these runs created
LastRunTag(ts) ==
    CHOOSE t \in RunTags(ts) : \A u \in RunTags(ts) : u.target <= t.target

\* a successful run that was no dry run and started clean ends clean; so
\* every run of a sequence of increment runs without -force that starts on a
\* clean repository, each run started after the one before it succeeded,
\* starts clean and does not fail with 'repository is not clean'
RunsStayClean ==
    /\ (Succeeded /\ ~WasDirty) => IsClean(files, index, commits)
    /\ pc = "start" => IsClean(files, index, commits)
    /\ ~WasDirty
    /\ err.msg # "repository is not clean"

\* the run created the tag of its new version, and that version is above the
\* tag the latest run before it created
TagRose ==
    /\ Compare(LastRunTag(pre.tags).name, newVersion) < 0
    /\ \E t \in RunTags(tags) \ pre.tags :
          t.name = newVersion /\ t.target = Len(commits)

C29_WrittenVersionsAreValid ==
    Succeeded
        => /\ \A p \in Found : files[p].data = EmptyStr \/ IsValid(files[p].data)
           /\ \A t \in RunTags(tags) \ pre.tags : IsValid(t.name)

====
